---------------------------- MODULE Spec2Model ----------------------------
(***************************************************************************)
(* The two interactive curve editors of NURBS-HermitCurve:                 *)
(*   NURBSEditor   (src/NurbsEditor.h, src/nurbseditor.cpp)                *)
(*   HermiteEditor (src/unnamed/part_000 = hermiteeditor.h,                *)
(*                  src/unnamed/part_001 = hermiteeditor.cpp)              *)
(* main() creates exactly one of them; the event handlers of that widget   *)
(* are the actions of Spec, its paintEvent the action of SpecPaint.        *)
(*                                                                         *)
(* Numbers.  The code computes in double.  The model computes in exact     *)
(* rationals <<n, d>> (d > 0, lowest terms): every coordinate the event    *)
(* handlers store is an integer or a dyadic fraction of one, 0 and 1 are   *)
(* exact sample parameters, and the pointer positions are chosen so that   *)
(* every distance qSqrt is asked for is an integer.                        *)
(*                                                                         *)
(* Pointers.  A pointer to a live element of a QVector is modelled by the  *)
(* element's current index (erasing an element shifts the pointers to the  *)
(* later ones with it), nullptr by 0 and a pointer whose target has been   *)
(* deleted by DANGLING.                                                    *)
(***************************************************************************)
EXTENDS Integers, Sequences, FiniteSets, TLC

---------------------------------------------------------------------------
(* Exact rational arithmetic standing for double.                          *)

Abs(x) == IF x < 0 THEN -x ELSE x

RECURSIVE GCD(_, _)
GCD(a, b) == IF b = 0 THEN a ELSE GCD(b, a % b)

\* n/d in lowest terms with a positive denominator
Rat(n, d) ==
    LET s == IF d < 0 THEN -1 ELSE 1
        g == GCD(Abs(n), Abs(d))
    IN  <<(s * n) \div g, (s * d) \div g>>

Int2R(n) == <<n, 1>>

RAdd(a, b) ==
    LET g == GCD(a[2], b[2])
    IN  Rat(a[1] * (b[2] \div g) + b[1] * (a[2] \div g), (a[2] \div g) * b[2])

RNeg(a) == <<-a[1], a[2]>>

RSub(a, b) == RAdd(a, RNeg(b))

RMul(a, b) ==
    LET g1 == GCD(Abs(a[1]), b[2])
        g2 == GCD(Abs(b[1]), a[2])
    IN  IF a[1] = 0 \/ b[1] = 0 THEN <<0, 1>>
        ELSE <<(a[1] \div g1) * (b[1] \div g2), (a[2] \div g2) * (b[2] \div g1)>>

\* a / b, b # 0
RDiv(a, b) == RMul(a, IF b[1] < 0 THEN <<-b[2], -b[1]>> ELSE <<b[2], b[1]>>)

RLt(a, b) == a[1] * b[2] < b[1] * a[2]

RLe(a, b) == a[1] * b[2] <= b[1] * a[2]

\* qMax(a, b): (a < b) ? b : a
qMax(a, b) == IF RLt(a, b) THEN b ELSE a

\* qMin(a, b): (a < b) ? a : b
qMin(a, b) == IF RLt(a, b) THEN a ELSE b

\* qBound(min, val, max) == qMax(min, qMin(max, val))
qBound(lo, val, hi) == qMax(lo, qMin(hi, val))

RECURSIVE ISqrtIn(_, _, _)
ISqrtIn(m, lo, hi) ==
    IF lo >= hi THEN lo
    ELSE LET mid == (lo + hi + 1) \div 2
         IN  IF mid * mid <= m THEN ISqrtIn(m, mid, hi) ELSE ISqrtIn(m, lo, mid - 1)

\* floor of the square root of a natural number below 2^30
ISqrt(m) == ISqrtIn(m, 0, 32767)

\* qSqrt: the exact root wherever the argument is the square of a rational
\* (all the model asks for); rounded down to a multiple of 1/d otherwise.
qSqrt(a) == Rat(ISqrt(a[1] * a[2]), a[2])

\* An angle is held as the point <<cos, sin>> of the unit circle.
\* qAtan2(dy, dx), with dist = sqrt(dx^2 + dy^2); atan2(0, 0) = 0.
qAtan2(dy, dx, dist) ==
    IF dist[1] = 0 THEN <<Int2R(1), Int2R(0)>>
    ELSE <<RDiv(dx, dist), RDiv(dy, dist)>>

qCos(angle) == angle[1]

qSin(angle) == angle[2]

---------------------------------------------------------------------------
(* QPointF: <<x, y>> with rational coordinates.                            *)

QPointF(x, y) == <<Int2R(x), Int2R(y)>>

PAdd(p, q) == <<RAdd(p[1], q[1]), RAdd(p[2], q[2])>>

PSub(p, q) == <<RSub(p[1], q[1]), RSub(p[2], q[2])>>

\* c * p (operator*(qreal, QPointF))
PScale(c, p) == <<RMul(c, p[1]), RMul(c, p[2])>>

\* QPointF::isNull()
isNull(p) == p[1][1] = 0 /\ p[2][1] = 0

\* the square of the distance between p and q
Length2Of(p, q) ==
    LET d == PSub(p, q)
    IN  RAdd(RMul(d[1], d[1]), RMul(d[2], d[2]))

\* QLineF(p, q).length() < r for an integer r >= 0.  The root is not
\* needed: with dx, dy the coordinate differences, sqrt(dx^2 + dy^2) < r iff
\* |dx| < r, |dy| < r and floor(dx^2 + dy^2) < r * r.
Within(p, q, r) ==
    LET d  == PSub(p, q)
        ax == <<Abs(d[1][1]), d[1][2]>>
        ay == <<Abs(d[2][1]), d[2][2]>>
        s  == RAdd(RMul(ax, ax), RMul(ay, ay))
    IN  /\ ax[1] \div ax[2] < r
        /\ ay[1] \div ay[2] < r
        /\ s[1] \div s[2] < r * r

---------------------------------------------------------------------------
(* Constants of the program.                                               *)

SNAP_DISTANCE == 30

HANDLE_SIZE == 10

HANDLE_RADIUS == 60

HERMITE_SNAP_DISTANCE == 20

\* editor->resize(1280, 800): width() and height() of the widget
Width == 1280

Height == 800

\* the lowest weight a handle drag or the Down key leaves: 0.1
WeightFloor == Rat(1, 10)

\* the step of the Up and Down keys: 0.01
WeightStep == Rat(1, 100)

\* the longest handle drawn: 600.0
VisualCap == Int2R(600)

\* InterpPoint's constructor: tangent(50, 0)
SeedTangent == QPointF(50, 0)

NULL == 0

DANGLING == -1

---------------------------------------------------------------------------
(* Bounds of the model and the inputs the events are drawn from.           *)

\* the number of events of one run
MaxEvents == 5

\* Pointer positions of the NURBS editor.  A point created at NA has its
\* handles at (160,100) and (40,100): NH is within HANDLE_SIZE of the first.
\* NC is above NA and ND left of the 20-pixel margin a dragged point is kept
\* inside.  All pairwise distances, also from the clamped (20,100), are
\* integers.
NA == QPointF(100, 100)

NH == QPointF(163, 100)

NC == QPointF(100, 160)

ND == QPointF(9, 100)

NurbsPointer == {NA, NH, NC, ND}

Buttons == {"Left", "Right", "Middle"}

NurbsKeys == {"Delete", "C", "Up", "Down", "V", "Plus", "Equal", "Minus",
              "1", "2", "3", "4", "5"}

---------------------------------------------------------------------------
VARIABLES
    editor,             \* which widget main() created: "NURBS" or "Hermite"
    events,             \* events handled so far (bounded by MaxEvents)
    \* NURBSEditor
    controlPoints,      \* QVector<ControlPoint*>
    selectedPoint,      \* ControlPoint* / InterpPoint* (the widget's own)
    activeSlopeHandle,  \* QPointF*: <<point, slot>>, <<NULL, 0>> for nullptr
    isDraggingPoint,
    showControlPoints,
    degree,
    sampleResolution,   \* of the widget created
    \* HermiteEditor
    points,             \* QVector<InterpPoint*>
    activeTangent,      \* QPointF*: the point whose tangent it addresses
    draggingPoint,
    showPoints,
    \* what paintEvent last produced
    painted,            \* whether paintEvent has run
    path,               \* the points handed to the QPainterPath, in order
    reads,              \* the indices of the points the curve sampler read
    knots               \* the knot vector paintEvent printed (NURBS)

nurbsVars == <<controlPoints, activeSlopeHandle, isDraggingPoint,
               showControlPoints, degree>>

hermiteVars == <<points, activeTangent, draggingPoint, showPoints>>

paintVars == <<painted, path, reads, knots>>

vars == <<editor, events, selectedPoint, sampleResolution, nurbsVars,
          hermiteVars, paintVars>>

NoHandle == <<NULL, 0>>

---------------------------------------------------------------------------
(* Pointers into a QVector whose elements are erased.                      *)

\* Where a pointer to element i points after the elements `gone` are
\* deleted and erased: nowhere live if i is one of them.
AfterErase(i, gone) ==
    IF i <= 0 THEN i
    ELSE IF i \in gone THEN DANGLING
    ELSE i - Cardinality({j \in gone : j < i})

\* the sequence s without the elements at the indices `gone`
EraseAll(s, gone) ==
    LET keep == {i \in 1..Len(s) : i \notin gone}
        Nth[k \in 0..Cardinality(keep)] ==
            IF k = 0 THEN 0
            ELSE CHOOSE i \in keep :
                     Cardinality({j \in keep : j < i}) = k - 1
    IN  [k \in 1..Cardinality(keep) |-> s[Nth[k]]]

HandleAfterErase(h, gone) == <<AfterErase(h[1], gone), h[2]>>

---------------------------------------------------------------------------
(* NURBSEditor: control points and handles.                                *)

\* updateSlopeHandlePositions leaving the handles where they were: the
\* variant C13 is checked against
updateSlopeHandlePositionsKept(cp) == cp

\* updateSlopeHandlePositions(cp)
updateSlopeHandlePositions(cp) ==
    LET angle == cp.slopeAngle
        visualLength == qMin(RMul(cp.weight, Int2R(HANDLE_RADIUS)), VisualCap)
        off == <<RMul(visualLength, qCos(angle)), RMul(visualLength, qSin(angle))>>
    IN  [cp EXCEPT !.slopeHandles = <<PAdd(cp.position, off), PSub(cp.position, off)>>]

\* initSlopeHandles(cp)
initSlopeHandles(cp) ==
    [cp EXCEPT !.slopeHandles = <<PAdd(cp.position, QPointF(HANDLE_RADIUS, 0)),
                                  PSub(cp.position, QPointF(HANDLE_RADIUS, 0))>>,
               !.weight = Int2R(1)]

\* ControlPoint(p): position(p), slopeAngle(0.0), weight(1.0), no handles yet
ControlPoint(p) ==
    [position |-> p, slopeHandles |-> <<>>,
     slopeAngle |-> <<Int2R(1), Int2R(0)>>, weight |-> Int2R(1)]

\* updateSlopeHandles with the weight left unclamped (distance /
\* HANDLE_RADIUS without the qMax): the variant C5 is checked against
updateSlopeHandlesNoFloor(cp, p) ==
    LET center == cp.position
        dx == RSub(p[1], center[1])
        dy == RSub(p[2], center[2])
        distance == qSqrt(RAdd(RMul(dx, dx), RMul(dy, dy)))
    IN  updateSlopeHandlePositions(
            [cp EXCEPT !.slopeAngle = qAtan2(dy, dx, distance),
                       !.weight = RDiv(distance, Int2R(HANDLE_RADIUS))])

\* updateSlopeHandles(p), on the control point cp = *selectedPoint
updateSlopeHandles(cp, p) ==
    LET center == cp.position
        dx == RSub(p[1], center[1])
        dy == RSub(p[2], center[2])
        distance == qSqrt(RAdd(RMul(dx, dx), RMul(dy, dy)))
    IN  updateSlopeHandlePositions(
            [cp EXCEPT !.slopeAngle = qAtan2(dy, dx, distance),
                       !.weight = qMax(WeightFloor, RDiv(distance, Int2R(HANDLE_RADIUS)))])

\* new T(...): the object obj, allocated while the objects of s are live.
\* Its serial stands for its address: it is greater than the serial of
\* every live object, so serials tell objects apart and order them by
\* allocation.  No handler reads it.
operatorNew(obj, s) ==
    LET used == {s[i].serial : i \in 1..Len(s)}
        top  == IF used = {} THEN 0 ELSE CHOOSE n \in used : \A k \in used : k <= n
    IN  obj @@ [serial |-> top + 1]

\* createNewControlPoint putting the new control point in front
\* (prepend for append): the variant C14 is checked against
createNewControlPointFront(p) ==
    /\ controlPoints' = <<initSlopeHandles(operatorNew(ControlPoint(p), controlPoints))>>
                            \o controlPoints
    /\ selectedPoint' = 1

\* createNewControlPoint(p)
createNewControlPoint(p) ==
    /\ controlPoints' = Append(controlPoints,
                               initSlopeHandles(operatorNew(ControlPoint(p), controlPoints)))
    /\ selectedPoint' = Len(controlPoints) + 1

\* deleteControlPoint without the reset of selectedPoint: the variant C19
\* is checked against
deleteControlPointNoReset(p) ==
    LET gone == {i \in 1..Len(controlPoints) :
                    Within(p, controlPoints[i].position, SNAP_DISTANCE)}
    IN  /\ controlPoints' = EraseAll(controlPoints, gone)
        /\ selectedPoint' = AfterErase(selectedPoint, gone)
        /\ activeSlopeHandle' = HandleAfterErase(activeSlopeHandle, gone)

\* deleteControlPoint(p): every control point within SNAP_DISTANCE of p is
\* deleted and erased; selectedPoint is reset if it is one of them.
deleteControlPoint(p) ==
    LET gone == {i \in 1..Len(controlPoints) :
                    Within(p, controlPoints[i].position, SNAP_DISTANCE)}
        sel  == IF selectedPoint \in gone THEN NULL ELSE selectedPoint
    IN  /\ controlPoints' = EraseAll(controlPoints, gone)
        /\ selectedPoint' = AfterErase(sel, gone)
        /\ activeSlopeHandle' = HandleAfterErase(activeSlopeHandle, gone)

\* trySelectSlopeHandle(p): the slot of the first handle of *selectedPoint
\* within HANDLE_SIZE of p, 0 if there is none (the function returns false)
trySelectSlopeHandle(p) ==
    IF selectedPoint = NULL THEN 0
    ELSE LET hs == controlPoints[selectedPoint].slopeHandles
             hit == {k \in 1..Len(hs) : Within(p, hs[k], HANDLE_SIZE)}
         IN  IF hit = {} THEN 0 ELSE CHOOSE k \in hit : \A l \in hit : k <= l

\* the first control point within SNAP_DISTANCE of p, 0 if there is none
FirstControlPointAt(p) ==
    LET hit == {i \in 1..Len(controlPoints) :
                   Within(p, controlPoints[i].position, SNAP_DISTANCE)}
    IN  IF hit = {} THEN 0 ELSE CHOOSE i \in hit : \A j \in hit : i <= j


---------------------------------------------------------------------------
(* NURBSEditor: the event handlers.                                        *)

\* one more event is handled
Tick == events < MaxEvents /\ events' = events + 1

\* NURBSEditor::mousePressEvent
NurbsMousePress(button, p) ==
    /\ editor = "NURBS"
    /\ Tick
    /\ CASE button = "Right" ->
              /\ deleteControlPoint(p)
              /\ UNCHANGED isDraggingPoint
         [] button = "Left" ->
              LET slot     == trySelectSlopeHandle(p)
                  active   == IF slot # 0 THEN <<selectedPoint, slot>>
                              ELSE activeSlopeHandle
                  hitIdx   == IF slot # 0 THEN 0 ELSE FirstControlPointAt(p)
                  pointHit == hitIdx # 0
              IN  /\ activeSlopeHandle' = active
                  /\ isDraggingPoint' = (pointHit \/ isDraggingPoint)
                  /\ selectedPoint' =
                        IF pointHit THEN hitIdx
                        ELSE IF active = NoHandle THEN NULL
                        ELSE selectedPoint
                  /\ UNCHANGED controlPoints
         [] OTHER ->
              UNCHANGED <<controlPoints, selectedPoint, activeSlopeHandle,
                          isDraggingPoint>>
    /\ UNCHANGED <<editor, showControlPoints, degree, sampleResolution,
                   hermiteVars, paintVars>>

\* NURBSEditor::mouseMoveEvent
NurbsMouseMove(p) ==
    /\ editor = "NURBS"
    /\ Tick
    /\ IF activeSlopeHandle # NoHandle /\ selectedPoint # NULL
       THEN controlPoints' =
                [controlPoints EXCEPT ![selectedPoint] = updateSlopeHandles(@, p)]
       ELSE IF selectedPoint # NULL /\ isDraggingPoint
       THEN LET newPos == <<qBound(Int2R(20), p[1], Int2R(Width - 20)),
                            qBound(Int2R(20), p[2], Int2R(Height - 20))>>
            IN  controlPoints' =
                    [controlPoints EXCEPT ![selectedPoint] =
                        updateSlopeHandlePositions([@ EXCEPT !.position = newPos])]
       ELSE UNCHANGED controlPoints
    /\ UNCHANGED <<editor, selectedPoint, activeSlopeHandle, isDraggingPoint,
                   showControlPoints, degree, sampleResolution, hermiteVars,
                   paintVars>>

\* NURBSEditor::mouseDoubleClickEvent
NurbsMouseDoubleClick(button, p) ==
    /\ editor = "NURBS"
    /\ Tick
    /\ IF button = "Left"
       THEN createNewControlPoint(p)
       ELSE UNCHANGED <<controlPoints, selectedPoint>>
    /\ UNCHANGED <<editor, activeSlopeHandle, isDraggingPoint,
                   showControlPoints, degree, sampleResolution, hermiteVars,
                   paintVars>>

\* mouseReleaseEvent without its isDraggingPoint = false: the variant C22
\* is checked against
NurbsMouseReleaseStillDragging ==
    /\ editor = "NURBS"
    /\ Tick
    /\ activeSlopeHandle' = NoHandle
    /\ IF isDraggingPoint /\ selectedPoint # NULL
       THEN controlPoints' =
                [controlPoints EXCEPT ![selectedPoint] = updateSlopeHandlePositions(@)]
       ELSE UNCHANGED controlPoints
    /\ UNCHANGED <<editor, selectedPoint, isDraggingPoint, showControlPoints,
                   degree, sampleResolution, hermiteVars, paintVars>>

\* NURBSEditor::mouseReleaseEvent
NurbsMouseRelease ==
    /\ editor = "NURBS"
    /\ Tick
    /\ activeSlopeHandle' = NoHandle
    /\ IF isDraggingPoint /\ selectedPoint # NULL
       THEN controlPoints' =
                [controlPoints EXCEPT ![selectedPoint] = updateSlopeHandlePositions(@)]
       ELSE UNCHANGED controlPoints
    /\ isDraggingPoint' = FALSE
    /\ UNCHANGED <<editor, selectedPoint, showControlPoints, degree,
                   sampleResolution, hermiteVars, paintVars>>

\* the first switch of keyPressEvent, entered only with a selected point
NurbsSelectedKey(key) ==
    CASE key = "Delete" ->
           \* std::find finds selectedPoint iff it is a live element
           IF selectedPoint \in 1..Len(controlPoints)
           THEN /\ controlPoints' = EraseAll(controlPoints, {selectedPoint})
                /\ selectedPoint' = NULL
                /\ activeSlopeHandle' =
                       HandleAfterErase(activeSlopeHandle, {selectedPoint})
                /\ UNCHANGED showControlPoints
           ELSE UNCHANGED <<controlPoints, selectedPoint, activeSlopeHandle,
                            showControlPoints>>
      [] key = "C" ->
           /\ controlPoints' = <<>>
           /\ selectedPoint' = NULL
           /\ activeSlopeHandle' =
                  HandleAfterErase(activeSlopeHandle, 1..Len(controlPoints))
           /\ UNCHANGED showControlPoints
      [] key = "Up" ->
           /\ controlPoints' =
                  [controlPoints EXCEPT ![selectedPoint] =
                      updateSlopeHandlePositions(
                          [@ EXCEPT !.weight = RAdd(@, WeightStep)])]
           /\ UNCHANGED <<selectedPoint, activeSlopeHandle, showControlPoints>>
      [] key = "Down" ->
           /\ controlPoints' =
                  [controlPoints EXCEPT ![selectedPoint] =
                      updateSlopeHandlePositions(
                          [@ EXCEPT !.weight = qMax(RSub(@, WeightStep), WeightFloor)])]
           /\ UNCHANGED <<selectedPoint, activeSlopeHandle, showControlPoints>>
      [] key = "V" ->
           /\ showControlPoints' = ~showControlPoints
           /\ UNCHANGED <<controlPoints, selectedPoint, activeSlopeHandle>>
      [] OTHER ->
           UNCHANGED <<controlPoints, selectedPoint, activeSlopeHandle,
                       showControlPoints>>

\* the second switch without qMin and qMax: the variant C16 is checked
\* against
ResolutionKeyUnclamped(key) ==
    CASE key \in {"Plus", "Equal"} -> sampleResolution' = sampleResolution + 10
      [] key = "Minus" -> sampleResolution' = sampleResolution - 10
      [] OTHER -> UNCHANGED sampleResolution

\* the second switch of both keyPressEvents: the sampling density
ResolutionKey(key) ==
    CASE key \in {"Plus", "Equal"} ->
           sampleResolution' =
               (IF sampleResolution + 10 < 1000 THEN sampleResolution + 10 ELSE 1000)
      [] key = "Minus" ->
           sampleResolution' =
               (IF sampleResolution - 10 < 10 THEN 10 ELSE sampleResolution - 10)
      [] OTHER -> UNCHANGED sampleResolution

\* degree = event->key() - Qt::Key_0 for the keys 1 to 5
DegreeKey(key) ==
    CASE key = "1" -> degree' = 1
      [] key = "2" -> degree' = 2
      [] key = "3" -> degree' = 3
      [] key = "4" -> degree' = 4
      [] key = "5" -> degree' = 5
      [] OTHER -> UNCHANGED degree

\* NURBSEditor::keyPressEvent, the handler's body
NurbsKeyPressEvent(key) ==
    /\ IF selectedPoint # NULL
       THEN NurbsSelectedKey(key)
       ELSE UNCHANGED <<controlPoints, selectedPoint, activeSlopeHandle,
                        showControlPoints>>
    /\ ResolutionKey(key)
    /\ DegreeKey(key)
    /\ UNCHANGED <<editor, isDraggingPoint, hermiteVars, paintVars>>

\* NURBSEditor::keyPressEvent as one of the events of a run
NurbsKeyPress(key) ==
    /\ editor = "NURBS"
    /\ Tick
    /\ NurbsKeyPressEvent(key)

\* NURBSEditor::keyPressEvent for a key held down: the auto-repeated
\* presses are not counted
NurbsKeyRepeat(key) ==
    /\ editor = "NURBS"
    /\ UNCHANGED events
    /\ NurbsKeyPressEvent(key)

---------------------------------------------------------------------------
(* HermiteEditor.                                                          *)

\* Pointer positions of the Hermite editor.  The first point, created at
\* HQ, has its handles at (200,100) and HP; one created at HP has its
\* positive handle at HQ.  HR is off their line.  HN is 10 pixels from HP:
\* it hits a point or a handle at HP without being on it.
HP == QPointF(100, 100)

HN == QPointF(110, 100)

HQ == QPointF(150, 100)

HR == QPointF(100, 160)

HermitePointer == {HP, HN, HQ, HR}

HermiteKeys == {"C", "Plus", "Equal", "Minus", "V"}

\* InterpPoint constructed with hasTangent = true: the variant C23 is
\* checked against
InterpPointExplicit(pos) ==
    [position |-> pos, tangent |-> SeedTangent, hasTangent |-> TRUE]

\* InterpPoint(pos): position(pos), tangent(50, 0), hasTangent = false
InterpPoint(pos) == [position |-> pos, tangent |-> SeedTangent, hasTangent |-> FALSE]

\* the first point with the handle position + tangent or position - tangent
\* within SNAP_DISTANCE of p, 0 if there is none
FirstHandleAt(p) ==
    LET hit == {i \in 1..Len(points) :
                   \/ Within(p, PAdd(points[i].position, points[i].tangent),
                             HERMITE_SNAP_DISTANCE)
                   \/ Within(p, PSub(points[i].position, points[i].tangent),
                             HERMITE_SNAP_DISTANCE)}
    IN  IF hit = {} THEN 0 ELSE CHOOSE i \in hit : \A j \in hit : i <= j

\* the first point within SNAP_DISTANCE of p, 0 if there is none
FirstPointAt(p) ==
    LET hit == {i \in 1..Len(points) :
                   Within(p, points[i].position, HERMITE_SNAP_DISTANCE)}
    IN  IF hit = {} THEN 0 ELSE CHOOSE i \in hit : \A j \in hit : i <= j

\* deletePointAt(pos): the first point within SNAP_DISTANCE is deleted
deletePointAt(pos) ==
    LET i == FirstPointAt(pos)
    IN  IF i # 0
        THEN /\ points' = EraseAll(points, {i})
             /\ selectedPoint' = NULL
             /\ activeTangent' = AfterErase(activeTangent, {i})
        ELSE /\ selectedPoint' = NULL   \* mousePressEvent's first statement
             /\ UNCHANGED <<points, activeTangent>>

\* HermiteEditor::mousePressEvent
HermiteMousePress(button, p) ==
    /\ editor = "Hermite"
    /\ Tick
    /\ IF button = "Right"
       THEN /\ deletePointAt(p)
            /\ UNCHANGED draggingPoint
       ELSE LET h == FirstHandleAt(p)
                i == FirstPointAt(p)
            IN  IF h # 0
                THEN /\ selectedPoint' = h
                     /\ activeTangent' = h
                     /\ points' =
                          IF Within(p, PAdd(points[h].position, points[h].tangent),
                                    HERMITE_SNAP_DISTANCE)
                          THEN points
                          ELSE [points EXCEPT ![h].tangent =
                                                  PSub(points[h].position, p)]
                     /\ UNCHANGED draggingPoint
                ELSE IF i # 0
                THEN /\ selectedPoint' = i
                     /\ draggingPoint' = TRUE
                     /\ UNCHANGED <<points, activeTangent>>
                ELSE /\ selectedPoint' = NULL
                     /\ UNCHANGED <<points, activeTangent, draggingPoint>>
    /\ UNCHANGED <<editor, showPoints, sampleResolution, nurbsVars, paintVars>>

\* mouseMoveEvent with the drag of a point taking its tangent along (the
\* tangent pointing at the pointer from the old position): the variant
\* C12 is checked against
HermiteMouseMoveBoth(p) ==
    /\ editor = "Hermite"
    /\ Tick
    /\ IF selectedPoint # NULL /\ activeTangent # NULL
       THEN points' = [points EXCEPT
                          ![selectedPoint].tangent = PSub(p, points[selectedPoint].position),
                          ![selectedPoint].hasTangent = TRUE]
       ELSE IF selectedPoint # NULL /\ draggingPoint
       THEN points' = [points EXCEPT
                          ![selectedPoint].position = p,
                          ![selectedPoint].tangent = PSub(p, points[selectedPoint].position)]
       ELSE UNCHANGED points
    /\ UNCHANGED <<editor, selectedPoint, activeTangent, draggingPoint,
                   showPoints, sampleResolution, nurbsVars, paintVars>>

\* HermiteEditor::mouseMoveEvent
HermiteMouseMove(p) ==
    /\ editor = "Hermite"
    /\ Tick
    /\ IF selectedPoint # NULL /\ activeTangent # NULL
       THEN points' = [points EXCEPT
                          ![selectedPoint].tangent = PSub(p, points[selectedPoint].position),
                          ![selectedPoint].hasTangent = TRUE]
       ELSE IF selectedPoint # NULL /\ draggingPoint
       THEN points' = [points EXCEPT ![selectedPoint].position = p]
       ELSE UNCHANGED points
    /\ UNCHANGED <<editor, selectedPoint, activeTangent, draggingPoint,
                   showPoints, sampleResolution, nurbsVars, paintVars>>

\* the appended point without the isNull test on the direction: the
\* variant C10 is checked against
NewInterpPointNoNullTest(p) ==
    LET newPt == operatorNew(InterpPoint(p), points)
    IN  IF Len(points) >= 1
        THEN [newPt EXCEPT !.tangent =
                 PScale(Rat(1, 2), PSub(newPt.position, points[Len(points)].position))]
        ELSE newPt

\* the point mouseDoubleClickEvent appends for a click at p
NewInterpPoint(p) ==
    LET newPt == operatorNew(InterpPoint(p), points)
    IN  IF Len(points) >= 1
        THEN LET dir == PSub(newPt.position, points[Len(points)].position)
             IN  IF ~isNull(dir)
                 THEN [newPt EXCEPT !.tangent = PScale(Rat(1, 2), dir)]
                 ELSE newPt
        ELSE newPt

\* HermiteEditor::mouseDoubleClickEvent
HermiteMouseDoubleClick(button, p) ==
    /\ editor = "Hermite"
    /\ Tick
    /\ IF button = "Left"
       THEN /\ points' = Append(points, NewInterpPoint(p))
            /\ selectedPoint' = Len(points) + 1
       ELSE UNCHANGED <<points, selectedPoint>>
    /\ UNCHANGED <<editor, activeTangent, draggingPoint, showPoints,
                   sampleResolution, nurbsVars, paintVars>>

\* HermiteEditor::mouseReleaseEvent
HermiteMouseRelease ==
    /\ editor = "Hermite"
    /\ Tick
    /\ activeTangent' = NULL
    /\ draggingPoint' = FALSE
    /\ UNCHANGED <<editor, points, selectedPoint, showPoints, sampleResolution,
                   nurbsVars, paintVars>>

\* HermiteEditor::keyPressEvent, the handler's body
HermiteKeyPressEvent(key) ==
    /\ CASE key = "C" ->
              /\ points' = <<>>
              /\ selectedPoint' = NULL
              /\ activeTangent' = AfterErase(activeTangent, 1..Len(points))
              /\ UNCHANGED showPoints
         [] key = "V" ->
              /\ showPoints' = ~showPoints
              /\ UNCHANGED <<points, selectedPoint, activeTangent>>
         [] OTHER ->
              UNCHANGED <<points, selectedPoint, activeTangent, showPoints>>
    /\ ResolutionKey(key)
    /\ UNCHANGED <<editor, draggingPoint, nurbsVars, paintVars>>

\* HermiteEditor::keyPressEvent as one of the events of a run
HermiteKeyPress(key) ==
    /\ editor = "Hermite"
    /\ Tick
    /\ HermiteKeyPressEvent(key)

\* HermiteEditor::keyPressEvent for a key held down
HermiteKeyRepeat(key) ==
    /\ editor = "Hermite"
    /\ UNCHANGED events
    /\ HermiteKeyPressEvent(key)

---------------------------------------------------------------------------
(* The editors as state machines.                                          *)

\* main(): one of the two widgets is constructed, with its members' default
\* initialisers; nothing has been painted.
Init ==
    /\ editor \in {"NURBS", "Hermite"}
    /\ events = 0
    /\ controlPoints = <<>>
    /\ selectedPoint = NULL
    /\ activeSlopeHandle = NoHandle
    /\ isDraggingPoint = FALSE
    /\ showControlPoints = TRUE
    /\ degree = 3
    /\ sampleResolution = 100
    /\ points = <<>>
    /\ activeTangent = NULL
    /\ draggingPoint = FALSE
    /\ showPoints = TRUE
    /\ painted = FALSE
    /\ path = <<>>
    /\ reads = {}
    /\ knots = <<>>

Next ==
    \/ \E b \in Buttons, p \in NurbsPointer : NurbsMousePress(b, p)
    \/ \E p \in NurbsPointer : NurbsMouseMove(p)
    \/ \E b \in Buttons, p \in NurbsPointer : NurbsMouseDoubleClick(b, p)
    \/ NurbsMouseRelease
    \/ \E k \in NurbsKeys : NurbsKeyPress(k)
    \/ \E b \in Buttons, p \in HermitePointer : HermiteMousePress(b, p)
    \/ \E p \in HermitePointer : HermiteMouseMove(p)
    \/ \E b \in Buttons, p \in HermitePointer : HermiteMouseDoubleClick(b, p)
    \/ HermiteMouseRelease
    \/ \E k \in HermiteKeys : HermiteKeyPress(k)

Spec == Init /\ [][Next]_vars

\* The sampling density over any number of key presses: the keys of the
\* second switch, held down, from the constructed state.
DensityKeys == {"Plus", "Equal", "Minus"}

NextResolution ==
    \/ \E k \in DensityKeys : NurbsKeyRepeat(k)
    \/ \E k \in DensityKeys : HermiteKeyRepeat(k)

SpecResolution == Init /\ [][NextResolution]_vars


---------------------------------------------------------------------------
(* NURBSEditor: knots, basis functions and the sampled curve.  QVectors    *)
(* read by index are functions on 0..size-1, as in the code.               *)

\* generateKnots with the vector one entry short, knots(m), the writes
\* past its end lost: the variant C3 is checked against
generateKnotsShort ==
    LET n  == Len(controlPoints) - 1
        m  == n + degree + 1
        k0 == [i \in 0..(m - 1) |-> Int2R(0)]
        k1 == [i \in DOMAIN k0 |-> IF i \in 0..degree THEN Int2R(0) ELSE k0[i]]
        k2 == [i \in DOMAIN k1 |-> IF i \in (m - degree)..m THEN Int2R(1) ELSE k1[i]]
    IN  [i \in DOMAIN k2 |->
            IF i \in (degree + 1)..(m - degree - 1)
            THEN Rat(i - degree, n - degree + 1)
            ELSE k2[i]]

\* generateKnots(): QVector<double> knots(m + 1) is zero-filled, then the
\* three loops write it in turn.
generateKnots ==
    LET n  == Len(controlPoints) - 1
        m  == n + degree + 1
        k0 == [i \in 0..m |-> Int2R(0)]
        k1 == [i \in DOMAIN k0 |-> IF i \in 0..degree THEN Int2R(0) ELSE k0[i]]
        k2 == [i \in DOMAIN k1 |-> IF i \in (m - degree)..m THEN Int2R(1) ELSE k1[i]]
    IN  [i \in DOMAIN k2 |->
            IF i \in (degree + 1)..(m - degree - 1)
            THEN Rat(i - degree, n - degree + 1)
            ELSE k2[i]]

\* generateKnots' writes with the second loop starting one index early,
\* at m - degree - 1: the variant C21 is checked against
generateKnotsWritesEarly ==
    LET n == Len(controlPoints) - 1
        m == n + degree + 1
    IN  (0..degree) \cup ((m - degree - 1)..m) \cup ((degree + 1)..(m - degree - 1))

\* the indices of knots the three loops of generateKnots write
generateKnotsWrites ==
    LET n == Len(controlPoints) - 1
        m == n + degree + 1
    IN  (0..degree) \cup ((m - degree)..m) \cup ((degree + 1)..(m - degree - 1))

\* the divisors of the third loop of generateKnots, one per iteration
generateKnotsDivisors ==
    LET n == Len(controlPoints) - 1
        m == n + degree + 1
    IN  {n - degree + 1 : i \in (degree + 1)..(m - degree - 1)}

\* qFuzzyIsNull taking every denominator for zero: the variant C18 is
\* checked against
qFuzzyIsNullAlways(d) == TRUE

\* qFuzzyIsNull(d): |d| <= 0.000000000001.  A nonzero n/d of the model has
\* |n/d| >= 1/d > 2^-31, so only 0 is that small.
qFuzzyIsNull(d) == d[1] = 0

\* basisFunction with the interval of degree 0 closed at both ends,
\* knots[i] <= t <= knots[i+1]: the variant C17 is checked against
RECURSIVE basisFunctionClosed(_, _, _, _)
basisFunctionClosed(p, i, kn, t) ==
    IF p = 0
    THEN IF RLe(kn[i], t) /\ RLe(t, kn[i + 1]) THEN Int2R(1) ELSE Int2R(0)
    ELSE LET denom1 == RSub(kn[i + p], kn[i])
             term1  == IF ~qFuzzyIsNull(denom1)
                       THEN RMul(RDiv(RSub(t, kn[i]), denom1),
                                 basisFunctionClosed(p - 1, i, kn, t))
                       ELSE Int2R(0)
             denom2 == RSub(kn[i + p + 1], kn[i + 1])
             term2  == IF ~qFuzzyIsNull(denom2)
                       THEN RMul(RDiv(RSub(kn[i + p + 1], t), denom2),
                                 basisFunctionClosed(p - 1, i + 1, kn, t))
                       ELSE Int2R(0)
         IN  RAdd(term1, term2)

\* basisFunction(p, i, knots, t): Cox-de Boor
RECURSIVE basisFunction(_, _, _, _)
basisFunction(p, i, kn, t) ==
    IF p = 0
    THEN IF RLe(kn[i], t) /\ RLt(t, kn[i + 1]) THEN Int2R(1) ELSE Int2R(0)
    ELSE LET denom1 == RSub(kn[i + p], kn[i])
             term1  == IF ~qFuzzyIsNull(denom1)
                       THEN RMul(RDiv(RSub(t, kn[i]), denom1),
                                 basisFunction(p - 1, i, kn, t))
                       ELSE Int2R(0)
             denom2 == RSub(kn[i + p + 1], kn[i + 1])
             term2  == IF ~qFuzzyIsNull(denom2)
                       THEN RMul(RDiv(RSub(kn[i + p + 1], t), denom2),
                                 basisFunction(p - 1, i + 1, kn, t))
                       ELSE Int2R(0)
         IN  RAdd(term1, term2)

\* the indices of knots basisFunction(p, i, knots, t) reads, its recursive
\* calls included, in the order of the code: knots[i + 1] of degree 0 only
\* if knots[i] <= t, a recursive call only behind its qFuzzyIsNull test.  A
\* read outside the vector ends the account there (what it returns is
\* undefined).
RECURSIVE basisFunctionReads(_, _, _, _)
basisFunctionReads(p, i, kn, t) ==
    IF p = 0
    THEN {i} \cup (IF i \in DOMAIN kn /\ RLe(kn[i], t) THEN {i + 1} ELSE {})
    ELSE LET here == {i + p, i, i + p + 1, i + 1}
         IN  IF ~(here \subseteq DOMAIN kn) THEN here
             ELSE here
                  \cup (IF ~qFuzzyIsNull(RSub(kn[i + p], kn[i]))
                        THEN basisFunctionReads(p - 1, i, kn, t) ELSE {})
                  \cup (IF ~qFuzzyIsNull(RSub(kn[i + p + 1], kn[i + 1]))
                        THEN basisFunctionReads(p - 1, i + 1, kn, t) ELSE {})

\* the loop of evaluateNURBS from index i on: <<x, y, denominator>> after
\* the last iteration, acc being their values before iteration i
RECURSIVE WeightedSums(_, _, _, _)
WeightedSums(i, kn, t, acc) ==
    IF i > Len(controlPoints) - 1 THEN acc
    ELSE LET cp    == controlPoints[i + 1]
             basis == RMul(basisFunction(degree, i, kn, t), cp.weight)
         IN  WeightedSums(i + 1, kn, t,
                 <<RAdd(acc[1], RMul(cp.position[1], basis)),
                   RAdd(acc[2], RMul(cp.position[2], basis)),
                   RAdd(acc[3], basis)>>)

\* QPointF(): the zero point
ZeroPoint == QPointF(0, 0)

\* evaluateNURBS without the early return for t >= 1 (the basis functions'
\* half-open intervals then leave nothing at t = 1): the variant C4 is
\* checked against
evaluateNURBSNoEnd(t) ==
    IF Len(controlPoints) < 2 THEN ZeroPoint
    ELSE IF RLe(t, Int2R(0)) THEN controlPoints[1].position
    ELSE LET tt == qBound(Int2R(0), t, Int2R(1))
             s  == WeightedSums(0, generateKnots, tt, <<Int2R(0), Int2R(0), Int2R(0)>>)
         IN  IF s[3][1] # 0
             THEN <<RDiv(s[1], s[3]), RDiv(s[2], s[3])>>
             ELSE ZeroPoint

\* evaluateNURBS(t)
evaluateNURBS(t) ==
    IF Len(controlPoints) < 2 THEN ZeroPoint
    ELSE IF RLe(t, Int2R(0)) THEN controlPoints[1].position
    ELSE IF RLe(Int2R(1), t) THEN controlPoints[Len(controlPoints)].position
    ELSE LET tt == qBound(Int2R(0), t, Int2R(1))
             s  == WeightedSums(0, generateKnots, tt, <<Int2R(0), Int2R(0), Int2R(0)>>)
         IN  IF s[3][1] # 0
             THEN <<RDiv(s[1], s[3]), RDiv(s[2], s[3])>>
             ELSE ZeroPoint

\* the indices of the control points evaluateNURBS(t) reads
evaluateNURBSReads(t) ==
    IF Len(controlPoints) < 2 THEN {}
    ELSE IF RLe(t, Int2R(0)) THEN {0}
    ELSE IF RLe(Int2R(1), t) THEN {Len(controlPoints) - 1}
    ELSE 0..(Len(controlPoints) - 1)

\* drawNURBSCurve without its size check: the variant C8 is checked against
drawNURBSCurveUnguarded ==
    [path  |-> [k \in 1..(sampleResolution + 1) |->
                   evaluateNURBS(Rat(k - 1, sampleResolution))],
     reads |-> UNION {evaluateNURBSReads(Rat(t, sampleResolution)) :
                         t \in 0..sampleResolution}]

\* drawNURBSCurve(): the points handed to the QPainterPath (moveTo, then a
\* lineTo for t = 1..sampleResolution) and the control points read
drawNURBSCurve ==
    IF Len(controlPoints) < 2 THEN [path |-> <<>>, reads |-> {}]
    ELSE [path  |-> [k \in 1..(sampleResolution + 1) |->
                        evaluateNURBS(Rat(k - 1, sampleResolution))],
          reads |-> UNION {evaluateNURBSReads(Rat(t, sampleResolution)) :
                              t \in 0..sampleResolution}]

\* NURBSEditor::paintEvent: the curve, then the knots for the text line
NurbsPaintEvent ==
    /\ editor = "NURBS"
    /\ path' = drawNURBSCurve.path
    /\ reads' = drawNURBSCurve.reads
    /\ knots' = generateKnots
    /\ painted' = TRUE
    /\ UNCHANGED <<editor, events, selectedPoint, sampleResolution, nurbsVars,
                   hermiteVars>>

---------------------------------------------------------------------------
(* HermiteEditor: the sampled curve.                                       *)

\* the Hermite basis polynomials, as drawHermiteCurve writes them
h00(t) == RAdd(RSub(RMul(RMul(RMul(Int2R(2), t), t), t), RMul(RMul(Int2R(3), t), t)), Int2R(1))

\* h10 with its last term mistyped, t^3 - 2t^2 + 1: the variant C6 is
\* checked against
h10Mistyped(t) == RAdd(RSub(RMul(RMul(t, t), t), RMul(RMul(Int2R(2), t), t)), Int2R(1))

h10(t) == RAdd(RSub(RMul(RMul(t, t), t), RMul(RMul(Int2R(2), t), t)), t)

h01(t) == RAdd(RMul(RMul(RMul(Int2R(-2), t), t), t), RMul(RMul(Int2R(3), t), t))

h11(t) == RSub(RMul(RMul(t, t), t), RMul(t, t))

\* the tangent field stored in the point, in place of the one computed
\* from the neighbours' positions: the variant C9 is checked against
autoTangentsStored(i) == points[i + 1].tangent

\* autoTangents[i] of drawHermiteCurve (i counts from 0; needs size >= 2)
autoTangents(i) ==
    IF i = 0
    THEN PScale(Rat(1, 2), PSub(points[i + 2].position, points[i + 1].position))
    ELSE IF i = Len(points) - 1
    THEN PScale(Rat(1, 2), PSub(points[i + 1].position, points[i].position))
    ELSE PScale(Rat(1, 2), PSub(points[i + 2].position, points[i].position))

\* the samples of segment i with the loop stopping before
\* j = sampleResolution: the variant C7 is checked against
HermiteSegmentExclusive(i) ==
    LET p0 == points[i + 1]
        p1 == points[i + 2]
        t0 == IF p0.hasTangent THEN p0.tangent ELSE autoTangents(i)
        t1 == IF p1.hasTangent THEN p1.tangent ELSE autoTangents(i + 1)
    IN  [k \in 1..sampleResolution |->
            LET t == Rat(k - 1, sampleResolution)
            IN  PAdd(PAdd(PAdd(PScale(h00(t), p0.position), PScale(h10(t), t0)),
                          PScale(h01(t), p1.position)),
                     PScale(h11(t), t1))]

\* the samples j = 0..sampleResolution of segment i (from 0)
HermiteSegment(i) ==
    LET p0 == points[i + 1]
        p1 == points[i + 2]
        t0 == IF p0.hasTangent THEN p0.tangent ELSE autoTangents(i)
        t1 == IF p1.hasTangent THEN p1.tangent ELSE autoTangents(i + 1)
    IN  [k \in 1..(sampleResolution + 1) |->
            LET t == Rat(k - 1, sampleResolution)
            IN  PAdd(PAdd(PAdd(PScale(h00(t), p0.position), PScale(h10(t), t0)),
                          PScale(h01(t), p1.position)),
                     PScale(h11(t), t1))]

\* the segments i, i+1, ..., size-2 one after the other
RECURSIVE HermiteSegmentsFrom(_)
HermiteSegmentsFrom(i) ==
    IF i >= Len(points) - 1 THEN <<>>
    ELSE HermiteSegment(i) \o HermiteSegmentsFrom(i + 1)

\* drawHermiteCurve(): the points handed to the QPainterPath and the
\* points read (the tangent loop reads every one)
drawHermiteCurve ==
    IF Len(points) < 2 THEN [path |-> <<>>, reads |-> {}]
    ELSE [path |-> HermiteSegmentsFrom(0), reads |-> 0..(Len(points) - 1)]

\* HermiteEditor::paintEvent
HermitePaintEvent ==
    /\ editor = "Hermite"
    /\ path' = drawHermiteCurve.path
    /\ reads' = drawHermiteCurve.reads
    /\ painted' = TRUE
    /\ UNCHANGED <<editor, events, selectedPoint, sampleResolution, nurbsVars,
                   hermiteVars, knots>>

---------------------------------------------------------------------------
(* paintEvent on the states the editors can be in.                         *)

\* the longest point sequence painted
MaxPaintPoints == 3

\* the sampling densities painted: 10, 20, ..., 10 * MaxPaintTens
MaxPaintTens == 1

\* Positions of painted control points: a 3-4-5 triangle near the corner
\* of the widget (small coordinates keep the exact fractions of a sample
\* within TLC's 32-bit integers).
PA == QPointF(1, 1)

PB == QPointF(4, 1)

PC == QPointF(1, 5)

\* Control points as the handlers leave them: created at PA; created at
\* PB, its handle then dragged onto the point itself (weight 0.1); created
\* at PC, its handle then dragged 120 pixels down (weight 2).
PaintControlPoints ==
    { initSlopeHandles(ControlPoint(PA)),
      updateSlopeHandles(initSlopeHandles(ControlPoint(PB)), PB),
      updateSlopeHandles(initSlopeHandles(ControlPoint(PC)), QPointF(1, 125)) }

\* Interpolation points as the handlers leave them: the first one created,
\* at HP; one at HQ whose handle was dragged to HR; one created at HR after
\* one at HP; one at HQ whose handle was dragged onto the point itself.
PaintInterpPoints ==
    { InterpPoint(HP),
      [InterpPoint(HQ) EXCEPT !.tangent = PSub(HR, HQ), !.hasTangent = TRUE],
      [InterpPoint(HR) EXCEPT !.tangent = PScale(Rat(1, 2), PSub(HR, HP))],
      [InterpPoint(HQ) EXCEPT !.tangent = PSub(HQ, HQ), !.hasTangent = TRUE] }

\* the sequences over S of length 0..n
SeqsUpTo(S, n) == UNION {[1..k -> S] : k \in 0..n}

InitPaint ==
    /\ editor \in {"NURBS", "Hermite"}
    /\ events = 0
    /\ controlPoints \in (IF editor = "NURBS"
                          THEN SeqsUpTo(PaintControlPoints, MaxPaintPoints)
                          ELSE {<<>>})
    /\ points \in (IF editor = "Hermite"
                   THEN SeqsUpTo(PaintInterpPoints, MaxPaintPoints)
                   ELSE {<<>>})
    /\ degree \in (IF editor = "NURBS" THEN 1..5 ELSE {3})
    /\ sampleResolution \in {10 * k : k \in 1..MaxPaintTens}
    /\ selectedPoint = NULL
    /\ activeSlopeHandle = NoHandle
    /\ isDraggingPoint = FALSE
    /\ showControlPoints = TRUE
    /\ activeTangent = NULL
    /\ draggingPoint = FALSE
    /\ showPoints = TRUE
    /\ painted = FALSE
    /\ path = <<>>
    /\ reads = {}
    /\ knots = <<>>

NextPaint ==
    \/ NurbsPaintEvent
    \/ HermitePaintEvent

SpecPaint == InitPaint /\ [][NextPaint]_vars


---------------------------------------------------------------------------
(* The claims.                                                             *)

\* the number of points of the widget created
PointCount == IF editor = "NURBS" THEN Len(controlPoints) ELSE Len(points)

Max(a, b) == IF a < b THEN b ELSE a

\* C1: in every reachable state of the NURBS editor the degree satisfies
\* 1 <= degree <= max(1, pointCount - 1).
C1_DegreeInRange ==
    editor = "NURBS" =>
        /\ 1 <= degree
        /\ degree <= Max(1, Len(controlPoints) - 1)

\* C2: for every painted NURBS state with at least 2 control points the
\* knot vector has its first degree+1 entries equal to 0.0 and its last
\* degree+1 entries equal to 1.0.
C2_KnotsClamped ==
    (editor = "NURBS" /\ painted /\ Len(controlPoints) >= 2) =>
        LET m == Len(controlPoints) + degree
        IN  /\ \A i \in 0..degree : knots[i] = Int2R(0)
            /\ \A i \in (m - degree)..m : knots[i] = Int2R(1)

\* C3: the knot vector generateKnots returns has exactly
\* pointCount + degree + 1 entries, indexed 0..pointCount+degree, for every
\* point count (0 included) and every degree 1..5.
C3_KnotCount ==
    (editor = "NURBS" /\ painted) =>
        /\ DOMAIN knots = 0..(Len(controlPoints) + degree)
        /\ Cardinality(DOMAIN knots) = Len(controlPoints) + degree + 1

\* C3's case: a painted knot vector with an interior knot (3 points,
\* degree 1: 0, 0, 1/2, 1, 1)
C3_Witness ==
    /\ editor = "NURBS" /\ painted
    /\ Len(controlPoints) = 3 /\ degree = 1
    /\ knots[2] = Rat(1, 2)

\* C4: with at least 2 control points evaluateNURBS(t) is exactly the first
\* control point's position for t <= 0 and exactly the last one's for
\* t >= 1, whatever the degree and the weights; so the first and the last
\* of the sampleResolution + 1 points of a painted curve are the first and
\* the last control point.
C4_NurbsEndpoints ==
    (editor = "NURBS" /\ Len(controlPoints) >= 2) =>
        LET first == controlPoints[1].position
            last  == controlPoints[Len(controlPoints)].position
        IN  /\ \A t \in {Int2R(-1), Int2R(0)} : evaluateNURBS(t) = first
            /\ \A t \in {Int2R(1), Int2R(2)} : evaluateNURBS(t) = last
            /\ painted =>
                  /\ Len(path) = sampleResolution + 1
                  /\ path[1] = first
                  /\ path[sampleResolution + 1] = last

\* C4's case: a painted curve of degree 5 over 3 control points of
\* weights 1/10, 1 and 2 whose ends differ, and an inner sample that is
\* neither end
C4_Witness ==
    /\ editor = "NURBS" /\ painted /\ degree = 5
    /\ Len(controlPoints) = 3
    /\ controlPoints[1].weight = Rat(1, 10)
    /\ controlPoints[2].weight = Int2R(2)
    /\ controlPoints[3].weight = Int2R(1)
    /\ path[1] = PB /\ path[sampleResolution + 1] = PA
    /\ path[2] \notin {PA, PB}

\* whether a handle drag with the pointer at p left the weight w on a
\* control point at pos: w = max(0.1, distance / HANDLE_RADIUS), stated
\* on the squared distance
DragWeight(w, pos, p) ==
    LET d2 == Length2Of(pos, p)
        r  == RMul(w, Int2R(HANDLE_RADIUS))
    IN  IF RLt(d2, Int2R(36))
        THEN w = WeightFloor
        ELSE RLe(WeightFloor, w) /\ RMul(r, r) = d2

\* C5: after every event of the NURBS editor every control point's weight
\* is >= 0.1 (the editor starts without control points), and a mouse move
\* with a handle held and a point selected (a handle drag) leaves
\* weight = max(0.1, distance / HANDLE_RADIUS) on the selected point.
C5_WeightFloor ==
    [][ /\ \A i \in 1..Len(controlPoints') :
               RLe(WeightFloor, controlPoints'[i].weight)
        /\ \A p \in NurbsPointer :
               (/\ NurbsMouseMove(p)
                /\ activeSlopeHandle # NoHandle
                /\ selectedPoint # NULL) =>
                   DragWeight(controlPoints'[selectedPoint].weight,
                              controlPoints[selectedPoint].position, p)
      ]_vars

\* C5's case: the handle of a point at NA is held and was dragged onto the
\* point itself, which left the weight 0.1
C5_Witness ==
    /\ editor = "NURBS"
    /\ activeSlopeHandle # NoHandle
    /\ selectedPoint \in 1..Len(controlPoints)
    /\ controlPoints[selectedPoint].position = NA
    /\ controlPoints[selectedPoint].weight = WeightFloor
    /\ controlPoints[selectedPoint].slopeHandles[1] = PAdd(NA, QPointF(6, 0))

\* the index in path of sample j of segment i (both from 0)
PathIndex(i, j) == i * (sampleResolution + 1) + j + 1

\* C6: in a painted Hermite curve over at least 2 points, sample j = 0 of
\* each segment i is exactly the stored position of point i and sample
\* j = sampleResolution exactly that of point i+1.
C6_HermiteEndpoints ==
    (editor = "Hermite" /\ painted /\ Len(points) >= 2) =>
        \A i \in 0..(Len(points) - 2) :
            /\ path[PathIndex(i, 0)] = points[i + 1].position
            /\ path[PathIndex(i, sampleResolution)] = points[i + 2].position

\* C6's case: a painted curve over 3 points, one with an explicit nonzero
\* tangent and one with an automatic one
C6_Witness ==
    /\ editor = "Hermite" /\ painted /\ Len(points) = 3
    /\ points[1].hasTangent /\ ~isNull(points[1].tangent)
    /\ ~points[2].hasTangent
    /\ points[1].position # points[2].position
    /\ Len(path) = 2 * (sampleResolution + 1)

\* C7: a painted Hermite curve over pointCount >= 2 points has exactly
\* (pointCount - 1) * (sampleResolution + 1) points: segment after segment,
\* and within segment i the samples j = 0, 1, ..., sampleResolution.
C7_HermiteSampleCount ==
    (editor = "Hermite" /\ painted /\ Len(points) >= 2) =>
        /\ Len(path) = (Len(points) - 1) * (sampleResolution + 1)
        /\ \A i \in 0..(Len(points) - 2) : \A j \in 0..sampleResolution :
               path[PathIndex(i, j)] = HermiteSegment(i)[j + 1]

\* C7's case: two segments that differ, painted one after the other
C7_Witness ==
    /\ editor = "Hermite" /\ painted /\ Len(points) = 3
    /\ HermiteSegment(0) # HermiteSegment(1)
    /\ path = HermiteSegment(0) \o HermiteSegment(1)

\* C8: with fewer than 2 points a paint puts no point on the path and
\* reads no element of the point vector, in both editors, and
\* evaluateNURBS returns the zero point (reading no control point).
C8_FewPointsShortCircuit ==
    PointCount < 2 =>
        /\ painted => (path = <<>> /\ reads = {})
        /\ editor = "NURBS" =>
               \A t \in {Int2R(0), Rat(1, 2), Int2R(1)} :
                   /\ evaluateNURBS(t) = ZeroPoint
                   /\ evaluateNURBSReads(t) = {}

\* C8's case: a paint with exactly one point
C8_Witness == painted /\ PointCount = 1

\* the tangent C9 says is used for point i (from 0) without a tangent of
\* its own, with n + 1 points
C9_ClaimedTangent(i) ==
    LET n      == Len(points) - 1
        pos(k) == points[k + 1].position
    IN  IF i = 0 THEN PScale(Rat(1, 2), PSub(pos(1), pos(0)))
        ELSE IF i = n THEN PScale(Rat(1, 2), PSub(pos(n), pos(n - 1)))
        ELSE PScale(Rat(1, 2), PSub(pos(i + 1), pos(i - 1)))

\* the cubic Hermite blend at t = j / sampleResolution of segment i, with
\* the tangent of a point that has none of its own replaced by C9's
C9_Sample(i, j) ==
    LET t    == Rat(j, sampleResolution)
        u    == RSub(Int2R(1), t)
        T(k) == IF points[k + 1].hasTangent THEN points[k + 1].tangent
                ELSE C9_ClaimedTangent(k)
        b00  == RMul(RAdd(Int2R(1), RMul(Int2R(2), t)), RMul(u, u))
        b10  == RMul(t, RMul(u, u))
        b01  == RMul(RMul(t, t), RSub(Int2R(3), RMul(Int2R(2), t)))
        b11  == RNeg(RMul(RMul(t, t), u))
    IN  PAdd(PAdd(PScale(b00, points[i + 1].position), PScale(b10, T(i))),
             PAdd(PScale(b01, points[i + 2].position), PScale(b11, T(i + 1))))

\* C9: every sample of a painted Hermite curve is the blend in which a
\* point with hasTangent = false takes the tangent computed from the
\* positions at that paint (0.5 * (pos[1] - pos[0]) for the first point,
\* 0.5 * (pos[n] - pos[n-1]) for the last, 0.5 * (pos[i+1] - pos[i-1]) in
\* between), whatever its stored tangent field holds.
C9_AutoTangentFromPositions ==
    (editor = "Hermite" /\ painted /\ Len(points) >= 2) =>
        \A i \in 0..(Len(points) - 2) : \A j \in 0..sampleResolution :
            path[PathIndex(i, j)] = C9_Sample(i, j)

\* C9's case: an interior point without a tangent of its own whose stored
\* tangent field differs from the tangent its neighbours give it
C9_Witness ==
    /\ editor = "Hermite" /\ painted /\ Len(points) = 3
    /\ ~points[2].hasTangent
    /\ points[2].tangent # C9_ClaimedTangent(1)
    /\ ~isNull(C9_ClaimedTangent(1))

\* what a double click at p appended: one point at the end, at p, with
\* hasTangent = false, the points before it untouched
Appended(p) ==
    /\ Len(points') = Len(points) + 1
    /\ SubSeq(points', 1, Len(points)) = points
    /\ points'[Len(points')].position = p
    /\ points'[Len(points')].hasTangent = FALSE

\* C10 as stated: a double click appends the new point with
\* hasTangent = false and, whenever a point precedes it, with the tangent
\* 0.5 * (newPos - precedingPos), also for newPos = precedingPos; the seed
\* (50, 0) only when no point precedes.
C10_InsertTangent_AsStated ==
    [][ \A p \in HermitePointer :
            HermiteMouseDoubleClick("Left", p) =>
                /\ Appended(p)
                /\ points'[Len(points')].tangent =
                       IF Len(points) >= 1
                       THEN PScale(Rat(1, 2), PSub(p, points[Len(points)].position))
                       ELSE SeedTangent
      ]_vars

\* C10 amended: the tangent is 0.5 * (newPos - precedingPos) whenever a
\* point precedes and newPos differs from its position; it is the seed
\* (50, 0) when no point precedes or newPos equals the preceding position.
C10_InsertTangent ==
    [][ \A p \in HermitePointer :
            HermiteMouseDoubleClick("Left", p) =>
                /\ Appended(p)
                /\ points'[Len(points')].tangent =
                       IF Len(points) >= 1 /\ p # points[Len(points)].position
                       THEN PScale(Rat(1, 2), PSub(p, points[Len(points)].position))
                       ELSE SeedTangent
      ]_vars

\* C10's case: the editor's first two events were double clicks at the
\* same place; the second point kept the seed
C10_Witness ==
    /\ editor = "Hermite" /\ events = 2 /\ Len(points) = 2
    /\ points[1].position = points[2].position
    /\ points[2].tangent = SeedTangent
    /\ ~points[2].hasTangent
    /\ selectedPoint = 2

\* C11: every step of the Hermite editor that changes the stored tangent
\* of a point leaves that point with hasTangent = true.  (A point starts
\* with the tangent assigned at insertion and hasTangent is never reset,
\* so this is what keeps "tangent differs from the insertion default
\* implies hasTangent" true in every reachable state.)
C11_TangentEditSetsFlag ==
    [][ editor = "Hermite" =>
            \A i \in 1..Len(points), j \in 1..Len(points') :
                (/\ points'[j].serial = points[i].serial
                 /\ points'[j].tangent # points[i].tangent) =>
                    points'[j].hasTangent
      ]_vars

\* what a Hermite point move of point i to p leaves: the sequence as it
\* was but for the position of point i, which is p
HermitePointMoved(i, p) ==
    /\ Len(points') = Len(points)
    /\ \A j \in 1..Len(points) :
           points'[j] = IF j = i THEN [points[j] EXCEPT !.position = p]
                        ELSE points[j]

\* C12 as stated: a mouse move while a point is being dragged
\* (draggingPoint, set by a press on the point now selected) changes only
\* the position of that point.
C12_PointMove_AsStated ==
    [][ \A p \in HermitePointer :
            (HermiteMouseMove(p) /\ selectedPoint # NULL /\ draggingPoint) =>
                HermitePointMoved(selectedPoint, p)
      ]_vars

\* C12 amended: a mouse move while a point is being dragged and no tangent
\* handle is held (activeTangent is null) changes only the position of the
\* dragged point: its tangent and hasTangent, every field of every other
\* point, and the length and order of the sequence are unchanged.
C12_PointMove ==
    [][ \A p \in HermitePointer :
            (/\ HermiteMouseMove(p)
             /\ selectedPoint # NULL
             /\ draggingPoint
             /\ activeTangent = NULL) =>
                HermitePointMoved(selectedPoint, p)
      ]_vars

\* C12's case: the second point, created at HR after one at HP (tangent
\* (0, 30)), was pressed and dragged to HQ with its tangent as it was
C12_Witness ==
    /\ editor = "Hermite"
    /\ Len(points) = 2
    /\ selectedPoint = 2 /\ draggingPoint /\ activeTangent = NULL
    /\ points[1].position = HP
    /\ points[2].position = HQ
    /\ points[2].tangent = QPointF(0, 30)
    /\ ~points[2].hasTangent

\* what a NURBS point move of control point i with the pointer at p
\* leaves: the position of i is p kept 20 pixels inside the widget, its
\* weight and slopeAngle are as before, its two handles are at the new
\* position plus and minus min(weight * HANDLE_RADIUS, 600) along the
\* angle (so symmetric about it); the other control points, the order and
\* the degree are unchanged
NurbsPointMoved(i, p) ==
    LET newPos == <<qBound(Int2R(20), p[1], Int2R(Width - 20)),
                    qBound(Int2R(20), p[2], Int2R(Height - 20))>>
        old == controlPoints[i]
        new == controlPoints'[i]
        len == qMin(RMul(old.weight, Int2R(HANDLE_RADIUS)), VisualCap)
        off == <<RMul(len, old.slopeAngle[1]), RMul(len, old.slopeAngle[2])>>
    IN  /\ Len(controlPoints') = Len(controlPoints)
        /\ \A j \in 1..Len(controlPoints) :
               j # i => controlPoints'[j] = controlPoints[j]
        /\ new.position = newPos
        /\ new.weight = old.weight
        /\ new.slopeAngle = old.slopeAngle
        /\ new.serial = old.serial
        /\ new.slopeHandles = <<PAdd(newPos, off), PSub(newPos, off)>>
        /\ PAdd(new.slopeHandles[1], new.slopeHandles[2]) =
               PScale(Int2R(2), newPos)
        /\ degree' = degree

\* C13 as stated: a mouse move while isDraggingPoint (and a point is
\* selected) is a point move: weight and slopeAngle of the selected point
\* unchanged, handles recomputed about the new position.
C13_PointMove_AsStated ==
    [][ \A p \in NurbsPointer :
            (NurbsMouseMove(p) /\ selectedPoint # NULL /\ isDraggingPoint) =>
                NurbsPointMoved(selectedPoint, p)
      ]_vars

\* C13 amended: a mouse move while isDraggingPoint, with a point selected
\* and no slope handle held (activeSlopeHandle is null), leaves the moved
\* point's weight and slopeAngle unchanged and every other control point,
\* the degree and the order unchanged; the two handles are recomputed from
\* the unchanged angle and weight, symmetric about the new position.
C13_PointMove ==
    [][ \A p \in NurbsPointer :
            (/\ NurbsMouseMove(p)
             /\ selectedPoint # NULL
             /\ isDraggingPoint
             /\ activeSlopeHandle = NoHandle) =>
                NurbsPointMoved(selectedPoint, p)
      ]_vars

\* C13's case: the only control point was dragged towards ND and stopped
\* at the margin, (20, 100), with its handles 60 pixels either side
C13_Witness ==
    /\ editor = "NURBS"
    /\ Len(controlPoints) = 1
    /\ selectedPoint = 1 /\ isDraggingPoint /\ activeSlopeHandle = NoHandle
    /\ controlPoints[1].position = QPointF(20, 100)
    /\ controlPoints[1].slopeHandles = <<QPointF(80, 100), QPointF(-40, 100)>>
    /\ controlPoints[1].weight = Int2R(1)

\* the point sequence of the widget created
PointSequence == IF editor = "NURBS" THEN controlPoints ELSE points

\* C14: in every reachable state of either editor the point sequence lists
\* the surviving points in the order they were inserted (allocated): the
\* serials increase along the sequence, whatever insertions, deletions,
\* moves and tangent or weight edits came before.
C14_InsertionOrder ==
    \A i, j \in 1..Len(PointSequence) :
        i < j => PointSequence[i].serial < PointSequence[j].serial

\* C14's case: three control points were inserted and the first was
\* deleted; the second and third are left, in that order
C14_Witness ==
    /\ editor = "NURBS"
    /\ Len(controlPoints) = 2
    /\ controlPoints[1].serial = 2
    /\ controlPoints[2].serial = 3
    /\ controlPoints[1].position # controlPoints[2].position

\* C15: a press of the C key leaves the point sequence empty and the
\* selection null, in every state of either editor, with or without a
\* selected point.
C15_ClearKey ==
    [][ (NurbsKeyPress("C") \/ HermiteKeyPress("C")) =>
            /\ PointSequence' = <<>>
            /\ selectedPoint' = NULL
      ]_vars

\* C16: in every state either editor reaches by presses of +, = and -,
\* however many, from the initial 100, sampleResolution is within
\* [10, 1000].
C16_ResolutionRange ==
    /\ 10 <= sampleResolution
    /\ sampleResolution <= 1000

\* C16's case: enough presses of - to arrive at the lower end
C16_Witness == sampleResolution = 10 /\ events = 0 /\ PointCount = 0

\* the sum of basisFunction(degree, i, kn, t) over i = from..pointCount-1
RECURSIVE BasisSum(_, _, _)
BasisSum(from, kn, t) ==
    IF from > Len(controlPoints) - 1 THEN Int2R(0)
    ELSE RAdd(basisFunction(degree, from, kn, t), BasisSum(from + 1, kn, t))

\* C17: for every painted NURBS state with pointCount >= 2 and
\* 1 <= degree <= pointCount - 1, the basis functions over the knot vector
\* generateKnots produced sum to exactly 1 at every sample parameter
\* t = k / sampleResolution with 0 <= t < 1.
C17_PartitionOfUnity ==
    (/\ editor = "NURBS" /\ painted
     /\ Len(controlPoints) >= 2
     /\ 1 <= degree /\ degree <= Len(controlPoints) - 1) =>
        \A k \in 0..(sampleResolution - 1) :
            BasisSum(0, knots, Rat(k, sampleResolution)) = Int2R(1)

\* C17's case: three control points of degree 1 were painted; the knot
\* vector has the interior knot 1/2, which is one of the sample parameters
C17_Witness ==
    /\ editor = "NURBS" /\ painted
    /\ Len(controlPoints) = 3 /\ degree = 1
    /\ knots[2] = Rat(1, 2)
    /\ \E k \in 1..(sampleResolution - 1) : Rat(k, sampleResolution) = knots[2]

\* the denominator evaluateNURBS divides by at the parameter t
Denominator(t) ==
    WeightedSums(0, generateKnots, qBound(Int2R(0), t, Int2R(1)),
                 <<Int2R(0), Int2R(0), Int2R(0)>>)[3]

\* C18: for every painted NURBS state with pointCount >= 2 (weights 0.1,
\* 1 and 2, degree 1..5, degree >= pointCount included) the denominator of
\* evaluateNURBS is strictly positive at every sample parameter
\* 0 < t < 1, so no sample is the zero-point sentinel.
C18_DenominatorPositive ==
    (editor = "NURBS" /\ painted /\ Len(controlPoints) >= 2) =>
        \A k \in 1..(sampleResolution - 1) :
            RLt(Int2R(0), Denominator(Rat(k, sampleResolution)))

\* C18's case: two control points, one of weight 0.1, painted with
\* degree 5 (more than pointCount); the sample after the first is a point
\* of the curve between the two
C18_Witness ==
    /\ editor = "NURBS" /\ painted
    /\ Len(controlPoints) = 2 /\ degree = 5
    /\ controlPoints[1].position = PA /\ controlPoints[2].position = PB
    /\ controlPoints[2].weight = WeightFloor
    /\ path[2] # ZeroPoint
    /\ path[2][2] = Int2R(1)

\* C19: in every reachable state of either editor selectedPoint is null
\* or points to one of the points now in the point sequence, never to a
\* deleted one.
C19_SelectedLive ==
    \/ selectedPoint = NULL
    \/ selectedPoint \in 1..Len(PointSequence)

\* C19's case: the selected control point was deleted while one of its
\* handles was held (the handle reference is left dangling); selectedPoint
\* was reset, and other control points remain
C19_Witness ==
    /\ editor = "NURBS"
    /\ activeSlopeHandle[1] = DANGLING
    /\ selectedPoint = NULL
    /\ Len(controlPoints) >= 1

\* C20: in every reachable state of either editor, if the active handle
\* reference (activeSlopeHandle, activeTangent) is non-null then
\* selectedPoint is non-null and live and the reference addresses a
\* handle (the tangent) of that selected point.
C20_ActiveHandleOfSelected ==
    /\ (editor = "NURBS" /\ activeSlopeHandle # NoHandle) =>
           /\ selectedPoint \in 1..Len(controlPoints)
           /\ activeSlopeHandle[1] = selectedPoint
    /\ (editor = "Hermite" /\ activeTangent # NULL) =>
           /\ selectedPoint \in 1..Len(points)
           /\ activeTangent = selectedPoint

\* C21: in every painted NURBS state (pointCount 0 and up, degree 1..5,
\* degree >= pointCount included) generateKnots wrote only indices in
\* 0..pointCount+degree and divided by no zero, and for pointCount >= 2
\* every knot basisFunction(degree, i, knots, t) reads for
\* 0 <= i <= pointCount-1 and every sample parameter t, at any depth of
\* the recursion, is in 0..pointCount+degree.
C21_KnotAccessInRange ==
    (editor = "NURBS" /\ painted) =>
        LET top == Len(controlPoints) + degree
        IN  /\ DOMAIN knots = 0..top
            /\ generateKnotsWrites \subseteq 0..top
            /\ 0 \notin generateKnotsDivisors
            /\ Len(controlPoints) >= 2 =>
                   \A k \in 0..sampleResolution, i \in 0..(Len(controlPoints) - 1) :
                       basisFunctionReads(degree, i, knots, Rat(k, sampleResolution))
                           \subseteq 0..top

\* C21's case: two control points painted with degree 5; the basis
\* function of the last control point reads the last knot, index 7, and
\* at degree 0 the knots 6 and 7 behind it
C21_Witness ==
    /\ editor = "NURBS" /\ painted
    /\ Len(controlPoints) = 2 /\ degree = 5
    /\ {1, 6, 7} \subseteq basisFunctionReads(degree, 1, knots, Rat(1, 2))
    /\ generateKnotsWrites = 0..7

\* the drag mode is off: no handle is held and no point is being dragged
DragModeOff ==
    IF editor = "NURBS"
    THEN activeSlopeHandle = NoHandle /\ ~isDraggingPoint
    ELSE activeTangent = NULL /\ ~draggingPoint

\* a mouse move, a double click, a release or a key press: every event
\* but a mouse press
EventOtherThanPress ==
    \/ \E p \in NurbsPointer : NurbsMouseMove(p)
    \/ \E b \in Buttons, p \in NurbsPointer : NurbsMouseDoubleClick(b, p)
    \/ NurbsMouseRelease
    \/ \E k \in NurbsKeys : NurbsKeyPress(k)
    \/ \E p \in HermitePointer : HermiteMouseMove(p)
    \/ \E b \in Buttons, p \in HermitePointer : HermiteMouseDoubleClick(b, p)
    \/ HermiteMouseRelease
    \/ \E k \in HermiteKeys : HermiteKeyPress(k)

\* C22: in both editors a mouse release leaves the drag mode off; with the
\* drag mode off every event other than a mouse press leaves it off (so it
\* is off from a release until the next press, double clicks and a
\* selected point notwithstanding); and with the drag mode off a mouse
\* move changes no point: positions, tangents, hasTangent, weights,
\* angles and handles are as before.
C22_NoDragAfterRelease ==
    [][ /\ (NurbsMouseRelease \/ HermiteMouseRelease) => DragModeOff'
        /\ (DragModeOff /\ EventOtherThanPress) => DragModeOff'
        /\ \A p \in NurbsPointer \cup HermitePointer :
               (DragModeOff /\ (NurbsMouseMove(p) \/ HermiteMouseMove(p))) =>
                   UNCHANGED <<controlPoints, points>>
      ]_vars

\* C22's case: a control point was pressed, dragged to the margin and
\* released; it is still selected, the drag mode is off, and one more
\* event, a mouse move among them, has left it where it was
C22_Witness ==
    /\ editor = "NURBS" /\ events = 5
    /\ Len(controlPoints) = 1 /\ selectedPoint = 1
    /\ DragModeOff
    /\ controlPoints[1].position = QPointF(20, 100)
    /\ controlPoints[1].weight = Int2R(1)

\* C23: in the Hermite editor, over every step, a point inserted by the
\* step has hasTangent = false, and a point that has hasTangent = true
\* before the step and is still in the sequence after it has
\* hasTangent = true.
C23_HasTangentMonotone ==
    [][ editor = "Hermite" =>
            \A j \in 1..Len(points') :
                IF \E i \in 1..Len(points) : points[i].serial = points'[j].serial
                THEN \A i \in 1..Len(points) :
                         (points[i].serial = points'[j].serial /\ points[i].hasTangent)
                             => points'[j].hasTangent
                ELSE ~points'[j].hasTangent
      ]_vars

\* C23's case: the tangent of the point was dragged to HR (hasTangent
\* became true), the handle was released, and the point itself was then
\* pressed: it is being dragged, with hasTangent still true
C23_Witness ==
    /\ editor = "Hermite"
    /\ Len(points) = 1 /\ selectedPoint = 1
    /\ draggingPoint /\ activeTangent = NULL
    /\ points[1].hasTangent
    /\ points[1].tangent = PSub(HR, HP)
    /\ points[1].position = HP

=============================================================================
